---- MODULE Spec2Model ----
(***************************************************************************)
(* Model of the DNS resolver / TCP connector actor of actix                *)
(* (crates/actix/src/actors/resolver.rs): the Resolver actor, its three    *)
(* message handlers, the ResolveFut future and the TcpConnector future.    *)
(*                                                                         *)
(* Conventions.  Option<T> is a sequence of length <= 1: None is <<>> and  *)
(* Some(v) is <<v>>.  A host string is a sequence of one-character         *)
(* strings; the character "a" / "b" stands for the text of one IPv4        *)
(* dotted-quad literal (it has no ':' inside), "h" for a letter.           *)
(* Time is counted in whole seconds.                                       *)
(***************************************************************************)
EXTENDS Integers, Sequences, FiniteSets, TLC

\* ------------------------------------------------------------- bounds ----
MaxTime == 3         \* the clock runs from 0 to MaxTime
MaxTimeout == 2      \* Connect.timeout ranges over 0..MaxTimeout
MaxIps == 2          \* the backend returns at most MaxIps addresses
MaxStarts == 2       \* SpecRestart: the actor is started at most MaxStarts times
MaxNameLen == 4      \* SpecParse: every host string of up to MaxNameLen characters

\* -------------------------------------------------- program constants ----
U16Max == 65535              \* u16::MAX, the width of a port
DefaultTimeout == 1          \* Duration::from_secs(1)
DefaultPort == 0             \* msg.port.unwrap_or(0)

None == <<>>
Some(v) == <<v>>
IsSome(o) == o # <<>>
Unwrap(o) == o[1]
UnwrapOr(o, d) == IF o = <<>> THEN d ELSE o[1]

\* ------------------------------------------------------ input domains ----
\* the requests followed, by their slot.  The handlers give every request a
\* response future of its own, which holds the whole state of the request
Slots == {1}
IPs == {"a", "b"}
Digits == {"0", "8", "9"}
DigitVal(c) == CASE c = "0" -> 0 [] c = "8" -> 8 [] c = "9" -> 9
IoErrors == {"refused", "unreachable"}
BackendErrors == {"nxdomain"}
Ports == {None, Some(9)}
Timeouts == 0..MaxTimeout

\* the host strings requests carry in the service specification
Names ==
    { <<"a", ":", "8">>,            \* literal socket address a:8
      <<"h">>,                      \* host, no port
      <<"h", ":", "8">>,            \* host:8
      <<"h", ":", "h">>,            \* host:<not a number>
      <<"a">> }                     \* bare IP, no port: not a SocketAddr

\* the characters of the host strings of the parsing specification
ParseChars == {"a", "h", ":", "8", "+"}
\* host strings longer than MaxNameLen: a port past u16::MAX, after a host
\* and after an IP; a port of four digits; a signed port of three characters
LongNames ==
    { <<"h", ":", "9", "9", "9", "9", "9">>,
      <<"a", ":", "9", "9", "9", "9", "9">>,
      <<"h", ":", "8", "0", "8", "0">>,
      <<"h", ":", "+", "8", "0">>,
      <<"h", ":", "8", ":", "9">> }

SockAddr(ip, port) == [ip |-> ip, port |-> port]
LiteralAddrs == { SockAddr(i, 8) : i \in IPs }

\* every sequence over S of length 0..n
SeqsUpTo(S, n) == UNION { [1..k -> S] : k \in 0..n }

\* ------------------------------------------------- string conversions ----
RECURSIVE DecValue(_)
\* value of a sequence of digits, most significant first
DecValue(ds) ==
    IF ds = <<>> THEN 0
    ELSE 10 * DecValue(SubSeq(ds, 1, Len(ds) - 1)) + DigitVal(ds[Len(ds)])

AllDigits(s) == \A i \in 1..Len(s) : s[i] \in Digits

\* <u16 as FromStr>::from_str: an optional '+', then one or more digits,
\* no overflow past u16::MAX
ParseU16(s) ==
    LET body == IF Len(s) > 1 /\ s[1] = "+" THEN Tail(s) ELSE s
    IN  IF body # <<>> /\ AllDigits(body) /\ DecValue(body) <= U16Max
        THEN Some(DecValue(body))
        ELSE None

\* <SocketAddr as FromStr>::from_str, on the IPv4 form ip:port (the port is
\* read as at most 5 digits, without sign, below 2^16)
ParseSocketAddr(s) ==
    IF /\ Len(s) >= 3
       /\ s[1] \in IPs
       /\ s[2] = ":"
       /\ Len(s) - 2 <= 5
       /\ AllDigits(SubSeq(s, 3, Len(s)))
       /\ DecValue(SubSeq(s, 3, Len(s))) <= U16Max
    THEN Some(SockAddr(s[1], DecValue(SubSeq(s, 3, Len(s)))))
    ELSE None

\* str::splitn(2, ':'): the text before the first ':' and, when there is a
\* ':', the whole text after it
Splitn2(s) ==
    LET colons == { i \in 1..Len(s) : s[i] = ":" }
    IN  IF colons = {} THEN << s >>
        ELSE LET k == CHOOSE i \in colons : \A j \in colons : i <= j
             IN  << SubSeq(s, 1, k - 1), SubSeq(s, k + 1, Len(s)) >>

\* ---------------------------------------------------------- errors -------
ResolverErr(msg) == [kind |-> "Resolver", detail |-> msg]
InvalidInput(msg) == [kind |-> "InvalidInput", detail |-> msg]
Timeout == [kind |-> "Timeout"]
IoError(e) == [kind |-> "IoError", detail |-> e]

Ok(v) == [ok |-> TRUE, val |-> v]
Err(e) == [ok |-> FALSE, err |-> e]

NotReady == [st |-> "NotReady"]
Ready(v) == [st |-> "Ready", val |-> v]
Failed(e) == [st |-> "Err", err |-> e]
Panic == [st |-> "Panic"]

\* ------------------------------------------------------- ResolveFut ------
\* (mutant) a name without a host before the ':' is rejected
ResolveFutParseRejectsEmptyHost(addr, port) ==
    LET parts == Splitn2(addr)
    IN  IF parts[1] = <<>>
        THEN Err(InvalidInput("invalid socket address"))
        ELSE Ok([host |-> parts[1],
                 port |-> IF Len(parts) >= 2
                          THEN UnwrapOr(ParseU16(parts[2]), port)
                          ELSE port])

\* (mutant) a name that gives no port, with no port passed in, is rejected
ResolveFutParseNeedsPort(addr, port) ==
    LET parts == Splitn2(addr)
        written == IF Len(parts) >= 2 THEN ParseU16(parts[2]) ELSE None
    IN  IF written = None /\ port = 0
        THEN Err(InvalidInput("missing port"))
        ELSE Ok([host |-> parts[1], port |-> UnwrapOr(written, port)])

\* (mutant) a text after the ':' that is no port number is an error
ResolveFutParseStrict(addr, port) ==
    LET parts == Splitn2(addr)
    IN  IF Len(parts) >= 2 /\ ParseU16(parts[2]) = None
        THEN Err(InvalidInput("invalid socket address"))
        ELSE Ok([host |-> parts[1],
                 port |-> IF Len(parts) >= 2 THEN Unwrap(ParseU16(parts[2]))
                          ELSE port])

\* (mutant) the port passed in wins over the port written in the string
ResolveFutParseIgnoresText(addr, port) ==
    Ok([host |-> Splitn2(addr)[1], port |-> port])

\* ResolveFut::parse: split at the first ':' and read the second part as a
\* u16, falling back to the port passed in
ResolveFutParse(addr, port) ==
    LET parts == Splitn2(addr)
    IN  IF parts = <<>>
        THEN Err(InvalidInput("invalid socket address"))
        ELSE LET host == parts[1]
                 port_str == IF Len(parts) >= 2 THEN parts[2] ELSE <<>>
             IN  Ok([host |-> host, port |-> UnwrapOr(ParseU16(port_str), port)])

\* (mutant) no attempt to read the string as a socket address: every name is
\* split and looked up
ResolveFutNewAlwaysLooksUp(addr, port, resolver) ==
    LET p == ResolveFutParse(addr, port)
    IN  [port |-> p.val.port,
         lookup |-> Some([host |-> p.val.host, on |-> resolver]),
         addrs |-> None, error |-> None, error2 |-> None]

\* (mutant) every request runs its lookup on a handle of its own rather than
\* on the one the service holds
ResolveFutNewOwnHandle(addr, port, resolver) ==
    [port |-> port,
     lookup |-> Some([host |-> addr,
                      on |-> [resolver EXCEPT !.gen = @ + 1]]),
     addrs |-> None, error |-> None, error2 |-> None]

\* ResolveFut::new; lookup = Some(h) is the BackgroundLookupIp that
\* resolver.lookup_ip(h) returned
ResolveFutNew(addr, port, resolver) ==
    IF IsSome(ParseSocketAddr(addr))
    THEN [port |-> port, lookup |-> None,
          addrs |-> Some(<< Unwrap(ParseSocketAddr(addr)) >>),
          error |-> None, error2 |-> None]
    ELSE LET p == ResolveFutParse(addr, port)
         IN  IF p.ok
             THEN [port |-> p.val.port,
                   lookup |-> Some([host |-> p.val.host, on |-> resolver]),
                   addrs |-> None, error |-> None, error2 |-> None]
             ELSE [port |-> port, lookup |-> None, addrs |-> None,
                   error |-> Some(p.err), error2 |-> None]

\* ResolveFut::err
ResolveFutErr(e) ==
    [port |-> 0, lookup |-> None, addrs |-> None, error |-> None,
     error2 |-> Some(e)]

\* (mutant) the addresses come out in the reverse of the backend's order
CollectAddrsReversed(ips, port) ==
    [i \in 1..Len(ips) |-> SockAddr(ips[Len(ips) + 1 - i], port)]

\* ips.iter().map(|ip| SocketAddr::new(ip, self.port)).collect()
CollectAddrs(ips, port) == [i \in 1..Len(ips) |-> SockAddr(ips[i], port)]

\* (mutant) an empty address list is passed on as a success
LookupReadyUnchecked(ips, port) == Ready(CollectAddrs(ips, port))

\* what a finished lookup with the addresses ips turns into
LookupReady(ips, port) ==
    LET addrs == CollectAddrs(ips, port)
    IN  IF addrs = <<>>
        THEN Failed(ResolverErr("Expect at least one A dns record"))
        ELSE Ready(addrs)

\* (mutant) a failed lookup is reported with a message of the service's own
ResolveFutPollOwnMessage(f, lk) ==
    IF IsSome(f.addrs)
    THEN [fut |-> [f EXCEPT !.addrs = None], out |-> Ready(Unwrap(f.addrs))]
    ELSE [fut |-> f,
          out |-> CASE lk.st = "NotReady" -> NotReady
                    [] lk.st = "Ready" -> LookupReady(lk.val, f.port)
                    [] lk.st = "Err" -> Failed(ResolverErr("lookup failed"))]

\* <ResolveFut as ActorFuture>::poll; lk is what polling the lookup gives at
\* this step.  The result is the future after the poll and the Poll value.
ResolveFutPoll(f, lk) ==
    IF IsSome(f.error)
    THEN [fut |-> [f EXCEPT !.error = None], out |-> Failed(Unwrap(f.error))]
    ELSE IF IsSome(f.error2)
    THEN [fut |-> [f EXCEPT !.error2 = None],
          out |-> Failed(ResolverErr(Unwrap(f.error2)))]
    ELSE IF IsSome(f.addrs)
    THEN [fut |-> [f EXCEPT !.addrs = None], out |-> Ready(Unwrap(f.addrs))]
    ELSE IF f.lookup = None
    THEN [fut |-> f, out |-> Panic]
    ELSE [fut |-> f,
          out |-> CASE lk.st = "NotReady" -> NotReady
                    [] lk.st = "Ready" -> LookupReady(lk.val, f.port)
                    [] lk.st = "Err" -> Failed(ResolverErr(lk.err))]

\* does polling f consult the backend lookup
PollsLookup(f) ==
    f.error = None /\ f.error2 = None /\ f.addrs = None /\ f.lookup # None

\* ------------------------------------------------------ TcpConnector -----
\* Delay::new(clock::now() + timeout)
Deadline(t, timeout) == t + timeout

\* TcpConnector::with_timeout at the instant t
WithTimeout(addrs, timeout, t) ==
    [addrs |-> addrs, stream |-> None, timeout |-> Deadline(t, timeout),
     broken |-> FALSE]

\* (mutant) the default timeout is one second longer
TcpConnectorNewSlow(addrs, t) == WithTimeout(addrs, DefaultTimeout + 1, t)

\* TcpConnector::new
TcpConnectorNew(addrs, t) == WithTimeout(addrs, DefaultTimeout, t)

\* (mutant) the timer is ready only after its instant has passed
DelayPollLate(deadline, t) == IF t > deadline THEN "Ready" ELSE "NotReady"

\* (mutant) the timer never becomes ready
DelayPollNever(deadline, t) == "NotReady"

\* (mutant) the timer is ready one tick before its instant
DelayPollEarly(deadline, t) == IF t + 1 >= deadline THEN "Ready" ELSE "NotReady"

\* Delay::poll at the instant t
DelayPoll(deadline, t) == IF t >= deadline THEN "Ready" ELSE "NotReady"

\* (mutant) an error of the timer counts as the deadline reached
TimerPollErrIsReady(c, t) ==
    IF c.broken THEN "Ready" ELSE DelayPoll(c.timeout, t)

\* self.timeout.poll(): Err while the timer of the runtime fails (broken),
\* else what Delay::poll gives at the instant t
TimerPoll(c, t) ==
    IF c.broken THEN "Err" ELSE DelayPoll(c.timeout, t)

\* the attempt log with the outcome of the newest attempt filled in
Mark(att, res) == [att EXCEPT ![Len(att)].res = res]

\* (mutant) an error never ends the race: the loop goes on to the pop
GivesUpNever(c) == FALSE

\* (mutant) the first error ends the race
GivesUpAtOnce(c) == TRUE

\* self.addrs.is_empty(): on an error of the current attempt the loop gives
\* up when the queue is empty and goes on to the next address otherwise
GivesUp(c) == c.addrs = <<>>

\* (mutant) the address is taken from the back of the queue
PopBack(addrs) ==
    [addr |-> addrs[Len(addrs)], rest |-> SubSeq(addrs, 1, Len(addrs) - 1)]

\* (mutant) the address is read from the front of the queue and left there
PopFrontPeek(addrs) == [addr |-> Head(addrs), rest |-> addrs]

\* self.addrs.pop_front(): the address taken and the queue left behind
PopFront(addrs) == [addr |-> Head(addrs), rest |-> Tail(addrs)]

\* (mutant) an attempt that is still pending does not hold back the next
\* address: the loop starts an attempt on it beside the pending one
ConnectLoopEager(c, att, oc, i) ==
    IF c.addrs = <<>>
    THEN [conn |-> c, att |-> att, out |-> NotReady]
    ELSE [conn |-> [c EXCEPT !.addrs = Tail(c.addrs),
                             !.stream = Some([addr |-> Head(c.addrs),
                                              n |-> Len(att) + 1])],
          att |-> Append(att, [addr |-> Head(c.addrs), res |-> "pending"]),
          out |-> NotReady]

\* (mutant) after a failed attempt the loop returns and leaves the next
\* address to the next poll; a new attempt is not polled in the poll that
\* starts it
ConnectLoopPauses(c, att, oc, i) ==
    IF IsSome(c.stream) /\ oc[i] = "Ready"
    THEN [conn |-> c, att |-> Mark(att, "ok"),
          out |-> Ready([peer |-> Unwrap(c.stream).addr,
                         n |-> Unwrap(c.stream).n])]
    ELSE IF IsSome(c.stream) /\ oc[i] = "NotReady"
    THEN [conn |-> c, att |-> att, out |-> NotReady]
    ELSE IF IsSome(c.stream) /\ c.addrs = <<>>
    THEN [conn |-> c, att |-> Mark(att, oc[i]),
          out |-> Failed(IoError([code |-> oc[i], n |-> Unwrap(c.stream).n]))]
    ELSE IF IsSome(c.stream)
    THEN [conn |-> c, att |-> Mark(att, oc[i]), out |-> NotReady]
    ELSE [conn |-> [c EXCEPT !.addrs = Tail(c.addrs),
                             !.stream = Some([addr |-> Head(c.addrs),
                                              n |-> Len(att) + 1])],
          att |-> Append(att, [addr |-> Head(c.addrs), res |-> "pending"]),
          out |-> NotReady]

RECURSIVE ConnectLoop(_, _, _, _)
\* the `loop` of <TcpConnector as ActorFuture>::poll.  c is the connector,
\* att the log of the attempts made so far, oc[i] what the i-th poll of a
\* ConnectFuture made in this step gives: "Ready", "NotReady" or an error.
ConnectLoop(c, att, oc, i) ==
    LET next(att2, j) ==
            IF c.addrs = <<>>
            THEN [conn |-> c, att |-> att2, out |-> Panic]
            ELSE ConnectLoop(
                     [c EXCEPT !.addrs = PopFront(c.addrs).rest,
                               !.stream = Some([addr |-> PopFront(c.addrs).addr,
                                                n |-> Len(att2) + 1])],
                     Append(att2, [addr |-> PopFront(c.addrs).addr,
                                   res |-> "pending"]),
                     oc, j)
    IN  IF IsSome(c.stream)
        THEN CASE oc[i] = "Ready" ->
                    [conn |-> c, att |-> Mark(att, "ok"),
                     out |-> Ready([peer |-> Unwrap(c.stream).addr,
                                    n |-> Unwrap(c.stream).n])]
               [] oc[i] = "NotReady" ->
                    [conn |-> c, att |-> att, out |-> NotReady]
               [] OTHER ->
                    IF GivesUp(c)
                    THEN [conn |-> c, att |-> Mark(att, oc[i]),
                          out |-> Failed(IoError([code |-> oc[i],
                                                  n |-> Unwrap(c.stream).n]))]
                    ELSE next(Mark(att, oc[i]), i + 1)
        ELSE next(att, i)

\* (mutant) every attempt the poll starts counts the deadline anew
TcpConnectorPollResetsDeadline(c, att, t, oc) ==
    IF DelayPoll(c.timeout, t) = "Ready"
    THEN [conn |-> c, att |-> att, out |-> Failed(Timeout)]
    ELSE LET l == ConnectLoop(c, att, oc, 1)
         IN  IF Len(l.att) > Len(att)
             THEN [l EXCEPT !.conn.timeout = Deadline(t, DefaultTimeout)]
             ELSE l

\* (mutant) the attempt is polled first, the deadline only when it is pending
TcpConnectorPollAttemptFirst(c, att, t, oc) ==
    LET l == ConnectLoop(c, att, oc, 1)
    IN  IF l.out.st = "NotReady" /\ DelayPoll(c.timeout, t) = "Ready"
        THEN [conn |-> l.conn, att |-> l.att, out |-> Failed(Timeout)]
        ELSE l

\* <TcpConnector as ActorFuture>::poll at the instant t
TcpConnectorPoll(c, att, t, oc) ==
    IF TimerPoll(c, t) = "Ready"
    THEN [conn |-> c, att |-> att, out |-> Failed(Timeout)]
    ELSE ConnectLoop(c, att, oc, 1)

\* ----------------------------------------------------------- state -------
VARIABLES
    resolver,   \* Resolver.resolver: Option<AsyncResolver>
    cfg,        \* Resolver.cfg: Option<(ResolverConfig, ResolverOpts)>
    err,        \* Resolver.err: Option<String>
    now,        \* clock::now()
    req         \* per request: its message, its futures, its result and
                \* the record of what was done for it

vars == << resolver, cfg, err, now, req >>

LookupOutcomes ==
    {NotReady} \cup { Ready(ips) : ips \in SeqsUpTo(IPs, MaxIps) }
               \cup { Failed(e) : e \in BackendErrors }
ConnOutcomes == {"Ready", "NotReady"} \cup IoErrors
\* what the polls of one step that polls at most k ConnectFutures give, in
\* the order of the polls: errors, ended by the first poll that gives a
\* socket or is pending (the loop returns there), or k errors
PollOutcomes(k) ==
    UNION { { Append(e, t) : e \in [1..j -> IoErrors],
                             t \in {"Ready", "NotReady"} } : j \in 0..(k - 1) }
    \cup [1..k -> IoErrors]

NoReq ==
    [msg |-> None, fut |-> None, conn |-> None, result |-> None,
     lookups |-> <<>>, backend |-> None, resolved |-> None, att |-> <<>>,
     sentAt |-> 0, raceAt |-> None, queue0 |-> None, dropped |-> FALSE]

Resolve(name, port) ==
    [kind |-> "Resolve", name |-> name, port |-> port]
Connect(name, port, timeout) ==
    [kind |-> "Connect", name |-> name, port |-> port, timeout |-> timeout]
ConnectAddr(addr) ==
    [kind |-> "ConnectAddr", addr |-> addr]

Reqs == DOMAIN req
Racing(r) == req[r].conn # None
Conn(r) == Unwrap(req[r].conn)
Kind(r) == IF req[r].msg = None THEN "none" ELSE Unwrap(req[r].msg).kind
Done(r) == req[r].result # None
\* (mutant) a response future that returned an error is polled again
LiveAfterError(r) ==
    /\ req[r].msg # None /\ ~req[r].dropped
    /\ IF req[r].result = None THEN TRUE
       ELSE Unwrap(req[r].result) \in
                { Err(Timeout) } \cup
                { Err(IoError([code |-> e, n |-> n])) :
                    e \in IoErrors, n \in 1..MaxIps }

\* the response future of r exists: it has not completed and was not dropped
Live(r) == req[r].msg # None /\ ~Done(r) /\ ~req[r].dropped

\* Resolver::new(config, options) or Resolver::default()
Init ==
    /\ resolver = None
    /\ cfg \in {None, Some("explicit")}
    /\ err = None
    /\ now = 0
    /\ req = [r \in Slots |-> NoReq]

\* the AsyncResolver that started builds: from the configuration given to
\* Resolver::new if it is still there, else from the system configuration,
\* else from the defaults; gen tells the handles of successive builds apart
BuildResolver(c, sys, prev) ==
    [conf |-> IF IsSome(c) THEN Unwrap(c)
              ELSE IF sys = "ok" THEN "system" ELSE "default",
     gen |-> IF IsSome(prev) THEN Unwrap(prev).gen + 1 ELSE 1]

\* (mutant) started reads the stored configuration and leaves it in place
StartedKeepsCfg(sys) ==
    /\ resolver = None
    /\ resolver' = Some([conf |-> IF IsSome(cfg) THEN Unwrap(cfg)
                                  ELSE IF sys = "ok" THEN "system"
                                  ELSE "default",
                         gen |-> 1])
    /\ UNCHANGED << cfg, err, now, req >>

\* <Resolver as Actor>::started, when the actor starts; sys is what
\* from_system_conf() gives
Started(sys) ==
    /\ resolver = None
    /\ resolver' = Some(BuildResolver(cfg, sys, resolver))
    /\ cfg' = None
    /\ UNCHANGED << err, now, req >>

\* (mutant) the drop leaves the connector, its timer and its attempt behind,
\* as if they were held by a task of their own
DroppedLeaks(q) == [q EXCEPT !.dropped = TRUE]

\* a response future dropped before it completed: the ResolveFut, or the
\* TcpConnector with the Delay and the ConnectFuture it owns, go with it
Dropped(q) == [q EXCEPT !.fut = None, !.conn = None, !.dropped = TRUE]

\* <Resolver as Actor>::started, when a supervisor restarts the actor: the
\* same Resolver value is started again in a new context, and the response
\* futures of the old context are dropped with it
Restarted(sys) ==
    /\ IsSome(resolver)
    /\ Unwrap(resolver).gen < MaxStarts
    /\ resolver' = Some(BuildResolver(cfg, sys, resolver))
    /\ cfg' = None
    /\ req' = [r \in Reqs |-> IF Live(r) THEN Dropped(req[r]) ELSE req[r]]
    /\ UNCHANGED << err, now >>

\* the lookups a new ResolveFut has started on the backend
LookupsStarted(f) == IF IsSome(f.lookup) THEN << Unwrap(f.lookup) >> ELSE <<>>

\* <Resolver as Handler<Resolve>>::handle
HandleResolve(r, name, port) ==
    /\ IsSome(resolver)
    /\ req[r].msg = None
    /\ LET f == IF IsSome(err)
                THEN ResolveFutErr(Unwrap(err))
                ELSE ResolveFutNew(name, UnwrapOr(port, DefaultPort),
                                   Unwrap(resolver))
       IN  req' = [req EXCEPT ![r] =
                     [NoReq EXCEPT !.msg = Some(Resolve(name, port)),
                                   !.fut = Some(f),
                                   !.lookups = LookupsStarted(f),
                                   !.sentAt = now]]
    /\ UNCHANGED << resolver, cfg, err, now >>

\* <Resolver as Handler<Connect>>::handle
HandleConnect(r, name, port, timeout) ==
    /\ IsSome(resolver)
    /\ req[r].msg = None
    /\ LET f == ResolveFutNew(name, UnwrapOr(port, DefaultPort),
                              Unwrap(resolver))
       IN  req' = [req EXCEPT ![r] =
                     [NoReq EXCEPT !.msg = Some(Connect(name, port, timeout)),
                                   !.fut = Some(f),
                                   !.lookups = LookupsStarted(f),
                                   !.sentAt = now]]
    /\ UNCHANGED << resolver, cfg, err, now >>

\* <Resolver as Handler<ConnectAddr>>::handle
HandleConnectAddr(r, addr) ==
    /\ IsSome(resolver)
    /\ req[r].msg = None
    /\ req' = [req EXCEPT ![r] =
                 [NoReq EXCEPT !.msg = Some(ConnectAddr(addr)),
                               !.conn = Some(TcpConnectorNew(<< addr >>, now)),
                               !.sentAt = now,
                               !.raceAt = Some(now),
                               !.queue0 = Some(<< addr >>)]]
    /\ UNCHANGED << resolver, cfg, err, now >>

\* the request after one poll of its TcpConnector gave pr
AfterRacePoll(q, pr) ==
    [q EXCEPT !.conn = Some(pr.conn),
              !.att = pr.att,
              !.result = CASE pr.out.st = "NotReady" -> None
                           [] pr.out.st = "Ready" -> Some(Ok(pr.out.val))
                           [] pr.out.st = "Err" -> Some(Err(pr.out.err))
                           [] pr.out.st = "Panic" -> Some(Panic)]

\* the record of what the backend lookup gave, once it has finished
Backend(f, lk) ==
    IF PollsLookup(f) /\ lk # NotReady THEN Some(lk) ELSE None

\* (mutant) the deadline counts from the instant the request was handled
RaceClockAtHandle(q, t) == q.sentAt

\* the instant with_timeout reads from the clock: it runs inside the closure
\* given to and_then, at the step t at which the ResolveFut became ready
RaceClock(q, t) == t

\* (mutant) a failed resolution goes on into a race, as with `then` in the
\* place of `and_then`
AfterResolveFailureRaces(q, p) ==
    [q EXCEPT !.fut = Some(p.fut),
              !.resolved = Some(p.out),
              !.conn = Some(WithTimeout(<<>>, DefaultTimeout, q.sentAt)),
              !.raceAt = Some(q.sentAt),
              !.queue0 = Some(<<>>)]

\* the request after a poll of its ResolveFut ended with an error or a panic
AfterResolveFailure(q, p) ==
    [q EXCEPT !.fut = Some(p.fut),
              !.resolved = Some(p.out),
              !.result = IF p.out.st = "Err" THEN Some(Err(p.out.err))
                         ELSE Some(Panic)]

\* one poll of the response future of a Resolve request
PollResolve(r, lk) ==
    /\ Kind(r) = "Resolve"
    /\ Live(r)
    /\ LET q == req[r]
           p == ResolveFutPoll(Unwrap(q.fut), lk)
       IN  /\ PollsLookup(Unwrap(q.fut)) \/ lk = NotReady
           /\ req' = [req EXCEPT ![r] =
                 CASE p.out.st = "NotReady" -> q
                   [] p.out.st = "Ready" ->
                        [q EXCEPT !.fut = Some(p.fut),
                                  !.backend = Backend(Unwrap(q.fut), lk),
                                  !.resolved = Some(p.out),
                                  !.result = Some(Ok(p.out.val))]
                   [] OTHER ->
                        AfterResolveFailure(
                            [q EXCEPT !.backend = Backend(Unwrap(q.fut), lk)],
                            p)]
    /\ UNCHANGED << resolver, cfg, err, now >>

\* one poll of the response future of a Connect request that is still in its
\* first half, ResolveFut: when that is ready, and_then builds the
\* TcpConnector with the addresses and polls it in the same step
PollConnectResolving(r, lk, oc) ==
    /\ Kind(r) = "Connect"
    /\ Live(r)
    /\ req[r].conn = None
    /\ LET q == req[r]
           p == ResolveFutPoll(Unwrap(q.fut), lk)
       IN  /\ PollsLookup(Unwrap(q.fut)) \/ lk = NotReady
           /\ req' = [req EXCEPT ![r] =
                 CASE p.out.st = "NotReady" -> q
                   [] p.out.st = "Ready" ->
                        LET c == WithTimeout(p.out.val,
                                             Unwrap(q.msg).timeout,
                                             RaceClock(q, now))
                        IN  AfterRacePoll(
                                [q EXCEPT !.fut = None,
                                          !.backend = Backend(Unwrap(q.fut), lk),
                                          !.resolved = Some(p.out),
                                          !.raceAt = Some(now),
                                          !.queue0 = Some(p.out.val)],
                                TcpConnectorPoll(c, <<>>, now, oc))
                   [] OTHER ->
                        AfterResolveFailure(
                            [q EXCEPT !.backend = Backend(Unwrap(q.fut), lk)],
                            p)]
    /\ UNCHANGED << resolver, cfg, err, now >>

\* (mutant) the races share one timer: when the poll of one race finds the
\* deadline reached, every race in flight ends in Timeout with it
PollRaceSharedTimer(r, oc) ==
    /\ Live(r)
    /\ req[r].conn # None
    /\ LET q == AfterRacePoll(req[r],
                    TcpConnectorPoll(Unwrap(req[r].conn), req[r].att, now, oc))
       IN  req' = [x \in Reqs |->
                     IF x = r THEN q
                     ELSE IF q.result = Some(Err(Timeout)) /\ Live(x)
                             /\ req[x].conn # None
                     THEN [req[x] EXCEPT !.result = Some(Err(Timeout))]
                     ELSE req[x]]
    /\ UNCHANGED << resolver, cfg, err, now >>

\* one poll of a TcpConnector that exists already (a ConnectAddr request, or
\* a Connect request in its second half)
PollRace(r, oc) ==
    /\ Live(r)
    /\ req[r].conn # None
    /\ req' = [req EXCEPT ![r] =
                 AfterRacePoll(req[r],
                     TcpConnectorPoll(Unwrap(req[r].conn), req[r].att, now, oc))]
    /\ UNCHANGED << resolver, cfg, err, now >>

\* the number of ConnectFutures a step of the race of r can poll: the one
\* in flight and one per queued address
PollsOfRace(r) ==
    IF Racing(r)
    THEN Len(Conn(r).addrs) + (IF IsSome(Conn(r).stream) THEN 1 ELSE 0)
    ELSE 0

\* the same for the step at which the lookup of r gives lk
PollsAfterLookup(r, lk) ==
    IF Kind(r) = "Connect" /\ req[r].fut # None
    THEN LET p == ResolveFutPoll(Unwrap(req[r].fut), lk)
         IN  IF p.out.st = "Ready" THEN Len(p.out.val) ELSE 0
    ELSE 0

\* the caller drops the response future of r before it has completed
Drop(r) ==
    /\ Live(r)
    /\ req' = [req EXCEPT ![r] = Dropped(req[r])]
    /\ UNCHANGED << resolver, cfg, err, now >>

\* the clock advances
Tick ==
    /\ now < MaxTime
    /\ now' = now + 1
    /\ UNCHANGED << resolver, cfg, err, req >>

Next ==
    \/ \E sys \in {"ok", "fail"} : Started(sys)
    \/ \E r \in Reqs, name \in Names, port \in Ports :
          HandleResolve(r, name, port)
    \/ \E r \in Reqs, name \in Names, port \in Ports, t \in Timeouts :
          HandleConnect(r, name, port, t)
    \/ \E r \in Reqs, addr \in LiteralAddrs : HandleConnectAddr(r, addr)
    \/ \E r \in Reqs, lk \in LookupOutcomes : PollResolve(r, lk)
    \/ \E r \in Reqs, lk \in LookupOutcomes :
          \E oc \in PollOutcomes(PollsAfterLookup(r, lk)) :
              PollConnectResolving(r, lk, oc)
    \/ \E r \in Reqs :
          \E oc \in PollOutcomes(PollsOfRace(r)) : PollRace(r, oc)
    \/ \E r \in Reqs : Drop(r)
    \/ Tick

Spec == Init /\ [][Next]_vars

\* ------------------------------------------------ claims: the race -------
Queue0(r) == Unwrap(req[r].queue0)
Att(r) == req[r].att
Result(r) == Unwrap(req[r].result)
AttFailed(a) == a.res \in IoErrors
\* the attempts made are the front of the initial queue, in its order
AttInQueueOrder(r) ==
    /\ Len(Att(r)) <= Len(Queue0(r))
    /\ \A i \in 1..Len(Att(r)) : Att(r)[i].addr = Queue0(r)[i]

\* C1: in a race, when the attempts on a1..a(k-1) have failed and the attempt
\* on ak has succeeded, the race has ended with the stream of ak, ak is the
\* k-th address of the initial queue (the first one that connected), and the
\* result holds that stream and none of the earlier errors.
C1_SequentialFallback ==
    \A r \in Reqs :
        (Racing(r) /\ Att(r) # <<>> /\ Att(r)[Len(Att(r))].res = "ok") =>
            /\ AttInQueueOrder(r)
            /\ \A i \in 1..(Len(Att(r)) - 1) : AttFailed(Att(r)[i])
            /\ req[r].result =
                   Some(Ok([peer |-> Queue0(r)[Len(Att(r))], n |-> Len(Att(r))]))

\* a race that succeeded on its second address after the first one failed
C1_Witness ==
    \E r \in Reqs :
        /\ Racing(r) /\ Len(Att(r)) = 2
        /\ AttFailed(Att(r)[1]) /\ Att(r)[2].res = "ok"
        /\ Done(r) /\ Result(r).ok

\* C2: a race ends with IoError exactly when every address of its initial
\* queue has been attempted and has failed; the error it carries is the one
\* of the attempt on the last address, an, and of no earlier attempt.
C2_AllFail ==
    \A r \in Reqs :
        Racing(r) =>
            LET allFailed ==
                    /\ Len(Att(r)) = Len(Queue0(r))
                    /\ \A i \in 1..Len(Att(r)) : AttFailed(Att(r)[i])
                n == Len(Att(r))
            IN  /\ (Done(r) /\ Result(r) # Panic /\ ~Result(r).ok
                      /\ Result(r).err.kind = "IoError")
                    => /\ allFailed
                       /\ Conn(r).addrs = <<>>
                       /\ AttInQueueOrder(r)
                /\ (allFailed /\ n > 0)
                    => req[r].result =
                           Some(Err(IoError([code |-> Att(r)[n].res, n |-> n])))

\* a race over two addresses that failed on both, with two different errors
C2_Witness ==
    \E r \in Reqs :
        /\ Racing(r) /\ Done(r) /\ Len(Queue0(r)) = 2 /\ Len(Att(r)) = 2
        /\ Att(r)[1].res \in IoErrors /\ Att(r)[2].res \in IoErrors
        /\ Att(r)[1].res # Att(r)[2].res
        /\ Result(r) = Err(IoError([code |-> Att(r)[2].res, n |-> 2]))

\* the current attempt of r is in flight and has not finished
Pending(r) ==
    /\ Racing(r) /\ ~Done(r)
    /\ IsSome(Conn(r).stream)
    /\ Att(r)[Len(Att(r))].res = "pending"
Elapsed(r) == now >= Conn(r).timeout
TimedOut(r) == req[r].result = Some(Err(Timeout))

\* C3: when the deadline has elapsed while the current attempt is pending,
\* the next scheduling step of the race ends it with Timeout, however many
\* addresses are left in the queue, and starts no attempt on any of them.
C3_TimeoutWithCandidatesLeft ==
    [][ \A r \in Reqs :
          (Pending(r) /\ Elapsed(r) /\ req'[r] # req[r]
             /\ ~req'[r].dropped) =>
              /\ req'[r].result = Some(Err(Timeout))
              /\ req'[r].att = req[r].att
              /\ req'[r].conn = req[r].conn ]_vars

\* a race that timed out with its attempt pending and an address untried
C3_Witness ==
    \E r \in Reqs :
        /\ Racing(r) /\ TimedOut(r)
        /\ Att(r) # <<>> /\ Att(r)[Len(Att(r))].res = "pending"
        /\ Conn(r).addrs # <<>>

\* C4: a step of the race taken when the deadline has elapsed ends in
\* Timeout whatever the in-flight attempt would give at that step: no step
\* that leaves the race with the deadline reached makes an attempt, polls
\* one, or returns a stream or an IoError.
C4_DeadlinePriority ==
    [][ \A r \in Reqs :
          (req'[r] # req[r] /\ req'[r].conn # None
             /\ now >= Unwrap(req'[r].conn).timeout) =>
              /\ req'[r].result = Some(Err(Timeout))
              /\ req'[r].att = req[r].att ]_vars

\* a race that timed out at the very instant of its deadline, one attempt
\* in flight
C4_Witness ==
    \E r \in Reqs :
        /\ Racing(r) /\ TimedOut(r) /\ now = Conn(r).timeout
        /\ Att(r) # <<>>

\* ------------------------------------------- claims: the service ---------
\* the recorded error of the service is never set: both constructors leave
\* Resolver.err at None and no handler assigns it
ErrNeverRecorded == err = None

Msg(r) == Unwrap(req[r].msg)
Resolving(r) == Kind(r) \in {"Resolve", "Connect"}
Resolved(r) == Unwrap(req[r].resolved)

\* C6: for a Connect request the race (its deadline, its address queue, its
\* first attempt) exists only once resolution has completed with success,
\* and it is seeded with the addresses resolution gave; when resolution has
\* failed the request has ended with the error of the resolution and no
\* race and no attempt exists for it.
C6_StrictSequencing ==
    \A r \in Reqs :
        Kind(r) = "Connect" =>
            /\ (Racing(r) \/ Att(r) # <<>> \/ req[r].raceAt # None
                  \/ req[r].queue0 # None)
                   => /\ req[r].resolved # None
                      /\ Resolved(r).st = "Ready"
                      /\ req[r].queue0 = Some(Resolved(r).val)
                      /\ (Racing(r) \/ req[r].dropped)
            /\ (req[r].resolved # None /\ Resolved(r).st # "Ready")
                   => /\ req[r].result = Some(Err(Resolved(r).err))
                      /\ ~Racing(r)
                      /\ Att(r) = <<>>

\* a Connect request that ended with the error of its failed lookup
C6_Witness ==
    \E r \in Reqs :
        /\ Kind(r) = "Connect" /\ Done(r) /\ ~Racing(r)
        /\ req[r].backend = Some(Failed("nxdomain"))
        /\ Result(r) = Err(ResolverErr("nxdomain"))

\* C7: the deadline of the race of a Connect request with timeout T is the
\* instant at which resolution completed plus T, so the request never ends
\* with Timeout before T has passed since that instant, however long the
\* resolution itself took.
C7_DeadlineOrigin ==
    \A r \in Reqs :
        (Kind(r) = "Connect" /\ Racing(r)) =>
            /\ Conn(r).timeout = Unwrap(req[r].raceAt) + Msg(r).timeout
            /\ TimedOut(r) => now >= Unwrap(req[r].raceAt) + Msg(r).timeout

\* a Connect request whose resolution took longer than its timeout and
\* which connected all the same
C7_Witness ==
    \E r \in Reqs :
        /\ Kind(r) = "Connect" /\ Racing(r)
        /\ Msg(r).timeout >= 1
        /\ Unwrap(req[r].raceAt) > req[r].sentAt + Msg(r).timeout
        /\ Done(r) /\ Result(r).ok

\* C8: when the name of a Resolve or Connect request reads as a socket
\* address, no backend lookup is started or polled for it, resolution gives
\* the queue of that one address, whatever the port field of the request.
C8_LiteralShortCircuit ==
    \A r \in Reqs :
        (Resolving(r) /\ IsSome(ParseSocketAddr(Msg(r).name))) =>
            LET lit == SockAddr(Msg(r).name[1],
                                DecValue(SubSeq(Msg(r).name, 3,
                                                Len(Msg(r).name))))
            IN  /\ req[r].lookups = <<>>
                /\ req[r].backend = None
                /\ req[r].resolved # None => Resolved(r) = Ready(<< lit >>)
                /\ (Kind(r) = "Resolve" /\ Done(r))
                       => Result(r) = Ok(<< lit >>)
                /\ req[r].queue0 # None => Queue0(r) = << lit >>

\* a Resolve of the literal a:8 with the port field 9 that gave [a:8]
C8_Witness ==
    \E r \in Reqs :
        /\ Kind(r) = "Resolve" /\ Done(r)
        /\ Msg(r).name = <<"a", ":", "8">> /\ Msg(r).port = Some(9)
        /\ Result(r) = Ok(<< SockAddr("a", 8) >>)

\* C9: when the backend lookup ends with zero addresses, resolution fails
\* with the Resolver error and no race is started; every list a resolution
\* succeeds with, for a literal or from a lookup, has at least one address.
C9_NoEmptySuccess ==
    \A r \in Reqs :
        /\ req[r].backend = Some(Ready(<<>>))
              => /\ req[r].result =
                        Some(Err(ResolverErr("Expect at least one A dns record")))
                 /\ ~Racing(r)
        /\ (req[r].resolved # None /\ Resolved(r).st = "Ready")
              => Resolved(r).val # <<>>
        /\ (Kind(r) = "Resolve" /\ Done(r) /\ Result(r) # Panic /\ Result(r).ok)
              => Result(r).val # <<>>

\* a Resolve whose lookup ended with no address and which failed
C9_Witness ==
    \E r \in Reqs :
        /\ Kind(r) = "Resolve" /\ Done(r)
        /\ req[r].backend = Some(Ready(<<>>))
        /\ ~Result(r).ok /\ Result(r).err.kind = "Resolver"

\* the port ResolveFut::new settles on for the request of r
EffectivePort(r) ==
    ResolveFutParse(Msg(r).name, UnwrapOr(Msg(r).port, DefaultPort)).val.port

\* C10: when the backend lookup ends with the addresses i1..in, n >= 1,
\* resolution gives i1:p .. in:p: as many entries, in the backend's order,
\* all with the one effective port p of the request.
C10_LookupResultShape ==
    \A r \in Reqs :
        (req[r].backend # None /\ Unwrap(req[r].backend).st = "Ready"
           /\ Unwrap(req[r].backend).val # <<>>) =>
            LET ips == Unwrap(req[r].backend).val
            IN  /\ req[r].resolved # None
                /\ Resolved(r).st = "Ready"
                /\ Len(Resolved(r).val) = Len(ips)
                /\ \A i \in 1..Len(ips) :
                      Resolved(r).val[i] = SockAddr(ips[i], EffectivePort(r))
                /\ Kind(r) = "Resolve" => req[r].result = Some(Ok(Resolved(r).val))

\* a Resolve of h:8 whose lookup gave [a, b] and which gave [a:8, b:8]
C10_Witness ==
    \E r \in Reqs :
        /\ Kind(r) = "Resolve" /\ Done(r)
        /\ Msg(r).name = <<"h", ":", "8">> /\ Msg(r).port = Some(9)
        /\ req[r].backend = Some(Ready(<<"a", "b">>))
        /\ Result(r) = Ok(<< SockAddr("a", 8), SockAddr("b", 8) >>)

\* ---------------------------------------- the parsing specification ------
\* every host string of up to MaxNameLen characters, and some longer ones
ParseNames == SeqsUpTo(ParseChars, MaxNameLen) \cup LongNames

\* the handlers and the ResolveFut over every host string of ParseNames
NextParse ==
    \/ \E sys \in {"ok", "fail"} : Started(sys)
    \/ \E r \in Reqs :
          /\ req[r].msg = None
          /\ \E name \in ParseNames, port \in Ports :
                HandleResolve(r, name, port)
    \/ \E r \in Reqs :
          /\ req[r].msg = None
          /\ \E name \in ParseNames, port \in Ports :
                HandleConnect(r, name, port, DefaultTimeout)
    \/ \E r \in Reqs, lk \in LookupOutcomes : PollResolve(r, lk)

SpecParse == Init /\ [][NextParse]_vars

\* ----------------------------------------- the direct-use specification --
\* a TcpConnector built by its caller, not by a handler of the service
Race(addrs, timeout) == [kind |-> "Race", addrs |-> addrs, timeout |-> timeout]

\* TcpConnector::with_timeout called with any queue, the empty one included:
\* the function is pub and does not look at addrs
StartRace(r, addrs, timeout) ==
    /\ req[r].msg = None
    /\ req' = [req EXCEPT ![r] =
                 [NoReq EXCEPT !.msg = Some(Race(addrs, timeout)),
                               !.conn = Some(WithTimeout(addrs, timeout, now)),
                               !.sentAt = now,
                               !.raceAt = Some(now),
                               !.queue0 = Some(addrs)]]
    /\ UNCHANGED << resolver, cfg, err, now >>

NextDirect ==
    \/ \E r \in Reqs, addrs \in SeqsUpTo(LiteralAddrs, MaxIps),
          timeout \in Timeouts : StartRace(r, addrs, timeout)
    \/ \E r \in Reqs :
          \E oc \in PollOutcomes(PollsOfRace(r)) : PollRace(r, oc)
    \/ \E r \in Reqs : Drop(r)
    \/ Tick

SpecDirect == Init /\ [][NextDirect]_vars

\* ------------------------------------------ the liveness specification ---
\* races that are never dropped
NextLive ==
    \/ \E r \in Reqs, addrs \in SeqsUpTo(LiteralAddrs, MaxIps),
          timeout \in Timeouts : StartRace(r, addrs, timeout)
    \/ \E r \in Reqs :
          \E oc \in PollOutcomes(PollsOfRace(r)) : PollRace(r, oc)
    \/ Tick

\* the poll of the race of r in which the attempt polled is still pending
PollPending(r) == PollRace(r, << "NotReady" >>)

\* the clock goes on, and a race is polled again whenever a poll would take
\* it further (the Delay and the ConnectFuture wake the task); nothing is
\* asked of the connect attempts: they may stay pending for ever
Fairness ==
    /\ WF_vars(Tick)
    /\ \A r \in Slots : WF_vars(PollPending(r))

SpecLive == Init /\ [][NextLive]_vars /\ Fairness

\* ------------------------------------------ two requests in flight -------
TwoSlots == {1, 2}

\* the service before its start, with room for two requests
InitTwo ==
    /\ resolver = None
    /\ cfg = None
    /\ err = None
    /\ now = 0
    /\ req = [r \in TwoSlots |-> NoReq]

\* what the lookups of the two-request specification give
TwoLookupOutcomes ==
    { NotReady, Ready(<< "a", "b" >>), Failed("nxdomain") }

\* two requests on one service: a Connect of the host h or a ConnectAddr in
\* each slot, polled in any interleaving
NextTwo ==
    \/ Started("ok")
    \/ \E r \in Reqs : HandleConnect(r, << "h" >>, Some(9), DefaultTimeout)
    \/ \E r \in Reqs : HandleConnectAddr(r, SockAddr("a", 8))
    \/ \E r \in Reqs, lk \in TwoLookupOutcomes :
          \E oc \in PollOutcomes(PollsAfterLookup(r, lk)) :
              PollConnectResolving(r, lk, oc)
    \/ \E r \in Reqs :
          \E oc \in PollOutcomes(PollsOfRace(r)) : PollRace(r, oc)
    \/ Tick

SpecTwo == InitTwo /\ [][NextTwo]_vars

\* ------------------------------------------ the failing timer ------------
\* the timer of the runtime starts to fail: polls of the Delay of r give Err
TimerFails(r) ==
    /\ Live(r)
    /\ req[r].conn # None
    /\ ~Conn(r).broken
    /\ req' = [req EXCEPT ![r].conn = Some([Conn(r) EXCEPT !.broken = TRUE])]
    /\ UNCHANGED << resolver, cfg, err, now >>

\* the timer works again
TimerRecovers(r) ==
    /\ Live(r)
    /\ req[r].conn # None
    /\ Conn(r).broken
    /\ req' = [req EXCEPT ![r].conn = Some([Conn(r) EXCEPT !.broken = FALSE])]
    /\ UNCHANGED << resolver, cfg, err, now >>

\* races whose timer can fail
NextTimer ==
    \/ \E r \in Reqs, addrs \in SeqsUpTo(LiteralAddrs, MaxIps),
          timeout \in Timeouts : StartRace(r, addrs, timeout)
    \/ \E r \in Reqs : TimerFails(r)
    \/ \E r \in Reqs : TimerRecovers(r)
    \/ \E r \in Reqs :
          \E oc \in PollOutcomes(PollsOfRace(r)) : PollRace(r, oc)
    \/ Tick

SpecTimer == Init /\ [][NextTimer]_vars

\* ---------------------------------------- the restart specification -----
\* the service under a supervisor that restarts it, with Resolve requests
NextRestart ==
    \/ \E sys \in {"ok", "fail"} : Started(sys)
    \/ \E sys \in {"ok", "fail"} : Restarted(sys)
    \/ \E r \in Reqs, name \in Names, port \in Ports :
          HandleResolve(r, name, port)
    \/ \E r \in Reqs, lk \in LookupOutcomes : PollResolve(r, lk)

SpecRestart == Init /\ [][NextRestart]_vars

\* ------------------------------------------- claims: host strings --------
Literal(name) == IsSome(ParseSocketAddr(name))
Colons(name) == { i \in 1..Len(name) : name[i] = ":" }
\* the text before the first ':' of the name (the whole name without ':')
HostText(name) ==
    IF Colons(name) = {} THEN name
    ELSE SubSeq(name, 1, (CHOOSE i \in Colons(name) :
                              \A j \in Colons(name) : i <= j) - 1)
\* the text after the first ':' of a name that has one
PortText(name) == SubSeq(name, Len(HostText(name)) + 2, Len(name))
\* the port field of the request, 0 when it is absent
PortField(r) == UnwrapOr(Msg(r).port, DefaultPort)
\* resolution of r went to the backend for host, with the effective port p,
\* and has not failed with an error of its own
LooksUp(r, host, p) ==
    /\ req[r].lookups = << [host |-> host, on |-> Unwrap(resolver)] >>
    /\ (req[r].fut # None /\ ~Done(r)) =>
           /\ Unwrap(req[r].fut).port = p
           /\ Unwrap(req[r].fut).error = None
           /\ Unwrap(req[r].fut).lookup = Some([host |-> host,
                                                on |-> Unwrap(resolver)])
    /\ (Done(r) /\ ~Result(r).ok) =>
           /\ Result(r).err.kind = "Resolver"
           /\ req[r].backend # None
           /\ Unwrap(req[r].backend) \in
                 { Ready(<<>>) } \cup { Failed(e) : e \in BackendErrors }
    /\ (Done(r) /\ Result(r).ok) =>
           \A i \in 1..Len(Result(r).val) : Result(r).val[i].port = p

\* C11: for a name host:text that is no socket address and whose text is no
\* u16, resolution raises no error of its own: it looks up host with the
\* port field of the request as the effective port.
C11_LenientPort ==
    \A r \in Reqs :
        (Resolving(r) /\ ~Literal(Msg(r).name) /\ Colons(Msg(r).name) # {}
           /\ ParseU16(PortText(Msg(r).name)) = None) =>
            LooksUp(r, HostText(Msg(r).name), PortField(r))

\* a Resolve of h:h with the port field 9 whose lookup gave [a], ended [a:9]
C11_Witness ==
    \E r \in Reqs :
        /\ Kind(r) = "Resolve" /\ Done(r)
        /\ Msg(r).name = <<"h", ":", "h">> /\ Msg(r).port = Some(9)
        /\ req[r].backend = Some(Ready(<<"a">>))
        /\ Result(r) = Ok(<< SockAddr("a", 9) >>)

\* C12: for a name that is no socket address the host looked up is the text
\* before the first ':'; a valid port after that ':' is the effective port,
\* whatever the port field; the port field is the effective port when the
\* name has no ':' or no valid port after it.
C12_PortPrecedence ==
    \A r \in Reqs :
        (Resolving(r) /\ ~Literal(Msg(r).name)) =>
            LET name == Msg(r).name
                written == IF Colons(name) = {} THEN None
                           ELSE ParseU16(PortText(name))
            IN  LooksUp(r, HostText(name),
                        IF IsSome(written) THEN Unwrap(written)
                        ELSE PortField(r))

\* a Resolve of h:8 with the port field 9 whose lookup gave [a], ended [a:8]
C12_Witness ==
    \E r \in Reqs :
        /\ Kind(r) = "Resolve" /\ Done(r)
        /\ Msg(r).name = <<"h", ":", "8">> /\ Msg(r).port = Some(9)
        /\ req[r].lookups = << [host |-> <<"h">>, on |-> Unwrap(resolver)] >>
        /\ Result(r) = Ok(<< SockAddr("a", 8) >>)

\* ------------------------------------------- claims: the handle ----------
\* every lookup of r runs on the handle h
LookupsOn(q, h) == \A i \in 1..Len(q.lookups) : q.lookups[i].on = h

C14_ConnectAddrSkipsResolution ==
    \A r \in Reqs :
        Kind(r) = "ConnectAddr" =>
            LET a == Msg(r).addr
            IN  /\ req[r].lookups = <<>> /\ req[r].backend = None
                /\ req[r].resolved = None /\ req[r].fut = None
                /\ req[r].queue0 = Some(<< a >>)
                /\ Len(Att(r)) <= 1
                /\ \A i \in 1..Len(Att(r)) : Att(r)[i].addr = a
                /\ Racing(r) =>
                       /\ Conn(r).timeout = req[r].sentAt + DefaultTimeout
                       /\ Conn(r).addrs = (IF Att(r) = <<>> THEN << a >>
                                           ELSE <<>>)
                /\ Done(r) =>
                       \/ /\ Result(r) = Ok([peer |-> a, n |-> 1])
                          /\ Att(r) = << [addr |-> a, res |-> "ok"] >>
                       \/ /\ Result(r) = Err(Timeout)
                          /\ now >= req[r].sentAt + DefaultTimeout
                       \/ \E e \in IoErrors :
                             /\ Result(r) = Err(IoError([code |-> e, n |-> 1]))
                             /\ Att(r) = << [addr |-> a, res |-> e] >>

\* a ConnectAddr request that ended with the error of its one attempt
C14_Witness ==
    \E r \in Reqs :
        /\ Kind(r) = "ConnectAddr" /\ Done(r)
        /\ Result(r) = Err(IoError([code |-> "refused", n |-> 1]))
        /\ Conn(r).addrs = <<>> /\ Len(Att(r)) = 1

\* ------------------------------------------- claims: the empty queue -----
\* C15: a race started with an empty queue ends, at its first step, with
\* the error InvalidInput, not with a panic (stated for the races whose
\* deadline has not been reached: at the deadline the step ends in Timeout).
C15_EmptyQueueFailsFast ==
    \A r \in Reqs :
        (Kind(r) = "Race" /\ req[r].queue0 = Some(<<>>) /\ Done(r)
           /\ now < Conn(r).timeout) =>
            /\ Result(r) # Panic
            /\ ~Result(r).ok
            /\ Result(r).err.kind = "InvalidInput"

C17_OneTerminalOutcome ==
    [][ \A r \in Reqs :
          req[r].result # None =>
              /\ req'[r] = req[r]
              /\ Result(r) # Panic
              /\ Result(r).ok \in BOOLEAN
              /\ \A i \in 1..Len(Att(r)) :
                     /\ Att(r)[i].res = "ok" => (i = Len(Att(r)) /\ Result(r).ok)
                     /\ Att(r)[i].res = "pending" =>
                            (i = Len(Att(r)) /\ TimedOut(r)) ]_vars

\* a race that succeeded on its first address with another one still queued,
\* after which time has passed
C17_Witness ==
    \E r \in Reqs :
        /\ Racing(r) /\ Done(r) /\ Result(r).ok
        /\ Len(Att(r)) = 1 /\ Conn(r).addrs # <<>>
        /\ now > Unwrap(req[r].raceAt)

\* ------------------------------------------- claims: the lookup ----------
\* C18: a Resolve or Connect request starts at most one backend lookup, none
\* when its name is a socket address; when the backend fails the lookup the
\* request has ended with the Resolver error that carries the backend's
\* message, without a race, an attempt or another lookup.
C18_NoRetryOfResolution ==
    \A r \in Reqs :
        Resolving(r) =>
            /\ Len(req[r].lookups) =
                   (IF Literal(Msg(r).name) THEN 0 ELSE 1)
            /\ \A e \in BackendErrors :
                   req[r].backend = Some(Failed(e)) =>
                       /\ req[r].result = Some(Err(ResolverErr(e)))
                       /\ req[r].conn = None /\ Att(r) = <<>>
                       /\ req[r].queue0 = None

\* a Resolve request whose one lookup the backend failed
C18_Witness ==
    \E r \in Reqs :
        /\ Kind(r) = "Resolve" /\ Len(req[r].lookups) = 1
        /\ req[r].backend = Some(Failed("nxdomain"))
        /\ Done(r) /\ ~Result(r).ok /\ Result(r).err.kind = "Resolver"

\* ------------------------------------------- claims: the attempts --------
\* the attempts of r that are in flight
InFlight(r) == { i \in 1..Len(Att(r)) : Att(r)[i].res = "pending" }
\* the addresses attempted so far, in the order of the attempts
Attempted(r) == [i \in 1..Len(Att(r)) |-> Att(r)[i].addr]

\* C19: a request has at most one attempt in flight; only its newest attempt
\* can be in flight, every earlier one has failed, and the connector holds
\* the newest attempt and no other.
C19_OneLiveAttempt ==
    \A r \in Reqs :
        /\ Cardinality(InFlight(r)) <= 1
        /\ \A i \in 1..(Len(Att(r)) - 1) : AttFailed(Att(r)[i])
        /\ Racing(r) =>
               Conn(r).stream =
                   (IF Att(r) = <<>> THEN None
                    ELSE Some([addr |-> Att(r)[Len(Att(r))].addr,
                               n |-> Len(Att(r))]))

\* a race whose first attempt failed and whose second attempt is in flight
C19_Witness ==
    \E r \in Reqs :
        /\ Racing(r) /\ ~Done(r) /\ Len(Att(r)) = 2
        /\ AttFailed(Att(r)[1]) /\ InFlight(r) = {2}

\* C20: in a race the addresses attempted so far, followed by the addresses
\* still queued, are the initial queue.
C20_FrontToBack ==
    \A r \in Reqs :
        Racing(r) => Attempted(r) \o Conn(r).addrs = Queue0(r)

\* a race over two different addresses that has failed on the first, is
\* attempting the second and has none left
C20_Witness ==
    \E r \in Reqs :
        /\ Racing(r) /\ Len(Queue0(r)) = 2 /\ Queue0(r)[1] # Queue0(r)[2]
        /\ Attempted(r) = Queue0(r) /\ Conn(r).addrs = <<>>
        /\ AttFailed(Att(r)[1])

\* ------------------------------------------- claims: the advance ---------
\* C21: a step of a race in which an attempt fails while addresses are
\* queued starts the attempt on the next address in that same step, at the
\* same instant and under the same deadline, and polls it there: no step
\* leaves a failed attempt with addresses queued behind it, and the attempt
\* a step leaves in flight is the newest one.
C21_ImmediateAdvance ==
    [][ \A r \in Reqs :
          (req[r].conn # None /\ req'[r].conn # None
             /\ req'[r].att # req[r].att) =>
              LET a2 == req'[r].att
                  c2 == Unwrap(req'[r].conn)
              IN  /\ now' = now
                  /\ c2.timeout = Conn(r).timeout
                  /\ \A i \in 1..(Len(a2) - 1) : AttFailed(a2[i])
                  /\ AttFailed(a2[Len(a2)]) =>
                         /\ c2.addrs = <<>>
                         /\ req'[r].result # None
                  /\ Len(a2) - Len(Att(r)) =
                         Len(Conn(r).addrs) - Len(c2.addrs) ]_vars

\* a race with an attempt in flight and addresses queued, whose next poll,
\* should every attempt fail, consumes all of them in the one step
C21_Witness ==
    \E r \in Reqs :
        /\ Racing(r) /\ ~Done(r) /\ Pending(r)
        /\ Len(Att(r)) = 1 /\ Len(Conn(r).addrs) >= 1
        /\ LET n == Len(Conn(r).addrs) + 1
               p == TcpConnectorPoll(Conn(r), Att(r), now,
                                     [i \in 1..n |-> "refused"])
           IN  /\ now < Conn(r).timeout
               /\ Len(p.att) = n
               /\ \A i \in 1..n : AttFailed(p.att[i])
               /\ p.out = Failed(IoError([code |-> "refused", n |-> n]))

\* ------------------------------------------- claims: the errors ----------
\* the instant at which the race of r was created
RaceAt(r) == Unwrap(req[r].raceAt)
\* the timeout the race of r was created with
RaceTimeout(r) ==
    IF Kind(r) = "ConnectAddr" THEN DefaultTimeout ELSE Msg(r).timeout

\* C22: a race that has ended with IoError has an empty queue and has
\* attempted every address of its initial queue, all of them without
\* success; a race that has ended with Timeout has reached its deadline.
C22_SoundRaceErrors ==
    \A r \in Reqs :
        (Racing(r) /\ Done(r) /\ Result(r) # Panic /\ ~Result(r).ok) =>
            /\ Result(r).err.kind \in {"IoError", "Timeout"}
            /\ Result(r).err.kind = "IoError" =>
                   /\ Conn(r).addrs = <<>>
                   /\ Attempted(r) = Queue0(r)
                   /\ \A i \in 1..Len(Att(r)) : AttFailed(Att(r)[i])
            /\ Result(r).err.kind = "Timeout" =>
                   now >= RaceAt(r) + RaceTimeout(r)

\* a Connect race that timed out at an instant later than its creation
C22_Witness ==
    \E r \in Reqs :
        /\ Kind(r) = "Connect" /\ Racing(r) /\ TimedOut(r)
        /\ Msg(r).timeout > 0 /\ RaceAt(r) > req[r].sentAt
        /\ now = RaceAt(r) + Msg(r).timeout

\* C23: the deadline of a race is the instant of its creation plus its
\* timeout, and no step changes it: not the start of an attempt, not the
\* failure of one.
C23_SingleDeadline ==
    [][ \A r \in Reqs :
          /\ req'[r].conn # None =>
                 Unwrap(req'[r].conn).timeout =
                     Unwrap(req'[r].raceAt) + (IF Unwrap(req'[r].msg).kind = "ConnectAddr"
                                               THEN DefaultTimeout
                                               ELSE Unwrap(req'[r].msg).timeout)
          /\ (req[r].conn # None /\ req'[r].conn # None) =>
                 /\ Unwrap(req'[r].conn).timeout = Conn(r).timeout
                 /\ req'[r].raceAt = req[r].raceAt ]_vars

\* a race that is on its second attempt at an instant later than its
\* creation, its deadline still to come
C23_Witness ==
    \E r \in Reqs :
        /\ Racing(r) /\ ~Done(r) /\ Len(Att(r)) = 2 /\ Pending(r)
        /\ now > RaceAt(r) /\ now < Conn(r).timeout
        /\ Conn(r).timeout = RaceAt(r) + RaceTimeout(r)

\* ------------------------------------------- claims: the pop -------------
\* C24: the race of a Connect or ConnectAddr request starts with a queue
\* that is not empty, and no step of it runs pop_front().unwrap() on an
\* empty queue: no such request ends in a panic.
C24_NonEmptyQueue ==
    \A r \in Reqs :
        Kind(r) \in {"Connect", "ConnectAddr"} =>
            /\ req[r].queue0 # None => Queue0(r) # <<>>
            /\ req[r].result # Some(Panic)
            /\ Len(Att(r)) <= Len(UnwrapOr(req[r].queue0, <<>>))

\* a Connect race that has spent its whole queue: the last attempt has
\* failed on the empty queue and the race has ended with its error
C24_Witness ==
    \E r \in Reqs :
        /\ Kind(r) = "Connect" /\ Racing(r) /\ Done(r)
        /\ Len(Queue0(r)) = MaxIps /\ Len(Att(r)) = MaxIps
        /\ Conn(r).addrs = <<>>
        /\ ~Result(r).ok /\ Result(r).err.kind = "IoError"

\* ------------------------------------------- claims: termination ---------
\* C25: a race over a queue that is not empty, with a deadline the clock
\* reaches, ends with a stream or with an error, whatever its attempts do;
\* and a race never makes more attempts than its initial queue has
\* addresses.
C25_RaceTermination ==
    \A r \in Slots :
        /\ [](req[r].queue0 # None =>
                 Len(req[r].att) <= Len(Unwrap(req[r].queue0)))
        /\ (/\ req[r].conn # None
            /\ req[r].queue0 # Some(<<>>)
            /\ Unwrap(req[r].conn).timeout <= MaxTime)
              ~> (req[r].result # None /\ req[r].result # Some(Panic))

\* a race that ended in Timeout with its first attempt still pending and an
\* address never tried
C25_Witness ==
    \E r \in Reqs :
        /\ Kind(r) = "Race" /\ Msg(r).timeout > 0 /\ TimedOut(r)
        /\ Len(Att(r)) = 1 /\ Att(r)[1].res = "pending"
        /\ Len(Queue0(r)) = 2

\* ------------------------------------------- claims: independence --------
\* the outcome that the responses recorded for the request q alone, those of
\* its lookup and of its connect attempts, determine
OwnOutcome(q) ==
    LET n == Len(q.att)
    IN  IF q.backend # None /\ Unwrap(q.backend).st = "Err"
        THEN Err(ResolverErr(Unwrap(q.backend).err))
        ELSE IF q.backend = Some(Ready(<<>>))
        THEN Err(ResolverErr("Expect at least one A dns record"))
        ELSE IF n > 0 /\ q.att[n].res = "ok"
        THEN Ok([peer |-> q.att[n].addr, n |-> n])
        ELSE IF n > 0 /\ q.att[n].res \in IoErrors
                /\ n = Len(Unwrap(q.queue0))
        THEN Err(IoError([code |-> q.att[n].res, n |-> n]))
        ELSE Err(Timeout)

\* C26: with two requests on one service a step of one request leaves the
\* record of the other (its queue, attempt, deadline and outcome) and the
\* resolver handle as they are; lookups run on the one handle of the
\* service; and the outcome of a request is the one that its own lookup and
\* connect responses and its own deadline determine.
C26_Independence ==
    [][ /\ \A r1, r2 \in Reqs :
               (r1 # r2 /\ req'[r1] # req[r1]) => req'[r2] = req[r2]
        /\ req' # req => (resolver' = resolver /\ cfg' = cfg /\ now' = now)
        /\ \A r \in Reqs :
               /\ IsSome(resolver') => LookupsOn(req'[r], Unwrap(resolver'))
               /\ req'[r].result # None =>
                      /\ Unwrap(req'[r].result) = OwnOutcome(req'[r])
                      /\ Unwrap(req'[r].result) = Err(Timeout) =>
                             now' >= Unwrap(req'[r].conn).timeout ]_vars

\* two races in flight at once, one of a Connect on its second attempt and
\* one of a ConnectAddr on its first
C26_Witness ==
    /\ Reqs = TwoSlots
    /\ \A r \in Reqs : Racing(r) /\ ~Done(r) /\ Pending(r)
    /\ \E r1, r2 \in Reqs :
          /\ Kind(r1) = "Connect" /\ Len(Att(r1)) = 2
          /\ Kind(r2) = "ConnectAddr" /\ Len(Att(r2)) = 1
          /\ Conn(r1).timeout # Conn(r2).timeout

\* ------------------------------------------- claims: the timer -----------
\* C27: a poll of a race whose timer reports an error does not end the race
\* in Timeout, whether the deadline has passed or not: the step is the one
\* the loop over the attempts takes by itself, so the race goes on or ends
\* with a stream or with the error of its last attempt.
C27_TimerErrorIsNoTimeout ==
    [][ \A r \in Reqs :
          (/\ req[r].conn # None /\ Conn(r).broken
           /\ req'[r] # req[r]
           /\ req'[r].conn # None /\ Unwrap(req'[r].conn).broken) =>
              /\ req'[r].result # Some(Err(Timeout))
              /\ \E oc \in PollOutcomes(PollsOfRace(r)) :
                     req'[r] = AfterRacePoll(req[r],
                                   ConnectLoop(Conn(r), Att(r), oc, 1)) ]_vars

\* a race created with the timeout 0, so with its deadline reached from the
\* start, that has ended with a stream on its second address while the
\* timer was failing
C27_Witness ==
    \E r \in Reqs :
        /\ Kind(r) = "Race" /\ Msg(r).timeout = 0
        /\ Racing(r) /\ Conn(r).broken
        /\ Done(r) /\ Result(r) # Panic /\ Result(r).ok
        /\ Len(Att(r)) = 2

\* ------------------------------------------- claims: InvalidInput --------
\* C28: no Resolve or Connect request holds or ends with the InvalidInput
\* error, whatever its name, the empty name and the names with no host or
\* with several ':' included; a name that is no socket address has started
\* the lookup of the text before its first ':'.
C28_InvalidInputUnreachable ==
    \A r \in Reqs :
        Resolving(r) =>
            /\ req[r].fut # None => Unwrap(req[r].fut).error = None
            /\ (Done(r) /\ ~Result(r).ok) =>
                   Result(r).err.kind # "InvalidInput"
            /\ req[r].lookups =
                   (IF Literal(Msg(r).name) THEN <<>>
                    ELSE << [host |-> HostText(Msg(r).name),
                             on |-> Unwrap(resolver)] >>)

\* a Resolve of the name ":8:" whose lookup, of the empty host, the backend
\* failed: the request ended with the backend's error
C28_Witness ==
    \E r \in Reqs :
        /\ Kind(r) = "Resolve" /\ Msg(r).name = <<":", "8", ":">>
        /\ req[r].lookups = << [host |-> <<>>, on |-> Unwrap(resolver)] >>
        /\ Done(r) /\ Result(r) = Err(ResolverErr("nxdomain"))

\* ------------------------------------------- claims: the configuration ---
\* C29: a step that builds the handle builds it from the stored explicit
\* configuration when there is one, and clears it; so the first start of a
\* service created with a configuration uses that configuration, and every
\* restart finds none and builds from the system configuration or, when that
\* fails, from the defaults.
C29_ExplicitConfigConsumed ==
    [][ resolver' # resolver =>
          /\ cfg' = None
          /\ IsSome(cfg) => Unwrap(resolver').conf = Unwrap(cfg)
          /\ cfg = None => Unwrap(resolver').conf \in {"system", "default"}
          /\ IsSome(resolver) =>
                 /\ cfg = None
                 /\ Unwrap(resolver').conf # "explicit" ]_vars

\* a service whose first handle came from the explicit configuration (a
\* request answered before the restart ran its lookup on it) and whose
\* second handle, after a restart, comes from the defaults
C29_Witness ==
    /\ cfg = None
    /\ resolver = Some([conf |-> "default", gen |-> 2])
    /\ \E r \in Reqs :
          /\ Done(r)
          /\ req[r].lookups # <<>>
          /\ req[r].lookups[1].on = [conf |-> "explicit", gen |-> 1]

\* ------------------------------------------- claims: the missing port ----
\* the name of r gives no port: no ':' or no u16 after the first ':'
NoWrittenPort(r) ==
    \/ Colons(Msg(r).name) = {}
    \/ ParseU16(PortText(Msg(r).name)) = None
AllPortsAre(addrs, p) == \A i \in 1..Len(addrs) : addrs[i].port = p

\* C30: a request whose name is no socket address and gives no port, and
\* whose port field is absent, raises no error of its own and goes on with
\* the port 0: its ResolveFut holds the port 0, a Resolve that succeeds
\* returns every looked-up address with port 0, and a Connect queues and
\* attempts every looked-up address with port 0.
C30_MissingPortIsZero ==
    \A r \in Reqs :
        (Resolving(r) /\ ~Literal(Msg(r).name) /\ NoWrittenPort(r)
           /\ Msg(r).port = None) =>
            /\ req[r].fut # None =>
                   /\ Unwrap(req[r].fut).error = None
                   /\ Unwrap(req[r].fut).port = 0
            /\ Len(req[r].lookups) = 1
            /\ (Done(r) /\ ~Result(r).ok) =>
                   /\ Result(r).err.kind # "InvalidInput"
                   /\ Result(r).err.kind = "Resolver" =>
                          /\ req[r].backend # None
                          /\ Unwrap(req[r].backend).st \in {"Ready", "Err"}
            /\ (Kind(r) = "Resolve" /\ Done(r) /\ Result(r).ok) =>
                   /\ AllPortsAre(Result(r).val, 0)
                   /\ Len(Result(r).val) = Len(Unwrap(req[r].backend).val)
            /\ req[r].queue0 # None =>
                   /\ AllPortsAre(Queue0(r), 0)
                   /\ Len(Queue0(r)) = Len(Unwrap(req[r].backend).val)
            /\ \A i \in 1..Len(Att(r)) : Att(r)[i].addr.port = 0

\* a Connect of the host h without port that has connected to the second
\* looked-up address, b, on port 0
C30_Witness ==
    \E r \in Reqs :
        /\ Kind(r) = "Connect" /\ Msg(r).name = <<"h">> /\ Msg(r).port = None
        /\ req[r].queue0 = Some(<< SockAddr("a", 0), SockAddr("b", 0) >>)
        /\ Done(r) /\ Result(r) = Ok([peer |-> SockAddr("b", 0), n |-> 2])

====
